---- MODULE Spec2Model ----
(***************************************************************************)
(* Task tracking of the BabelDOC translation API                           *)
(* (src/src/pdftranslate_web/api_server20251011.py): the two process-wide  *)
(* dictionaries translation_tasks and task_files, the background coroutine *)
(* translate_document that consumes the engine's event stream, and the     *)
(* HTTP handlers that submit, poll and download.                           *)
(*                                                                         *)
(* Scheduling: uvicorn runs one asyncio event loop.  A handler or a run    *)
(* keeps the loop from one await to the next, so the statements between    *)
(* two awaits are not interleaved with other handlers.  The variable       *)
(* `loop` names the run that is inside such a stretch; the steps of the    *)
(* stretch are still separate actions, because an exception can leave it   *)
(* half-way.  The file system is outside the loop and changes at any time. *)
(***************************************************************************)
EXTENDS Integers, Sequences, FiniteSets, TLC

\* ---------------------------------------------------------------- bounds
MaxTasks == 2        \* submissions accepted in a behaviour

\* ------------------------------------------------------------- constants
TaskIds == 1..MaxTasks
UnknownId == 0                       \* an id uuid4 never returned
NoTask == 0                          \* the loop is between handlers
None == <<>>                         \* Python None for a path
FileKinds == {"dual", "mono"}
FileTypes == FileKinds                \* file_type path parameters tried
\* overall_progress values the engine sends; the code puts no bound on them,
\* so one is outside 0..100.
ProgressValues == {30, 70, 120}
ErrorTexts == {"E1"}
ExcTexts == {"X1"}

\* File names are sequences of characters, so that lower() and endswith()
\* are computed.
Filenames ==
    { <<"A", ".", "P", "d", "f">>,
      <<"r", ".", "t", "x", "t">>,
      <<"p", "d", "f">> }

\* An Optional form field is None or a one-element sequence holding its value.
Some(v) == << v >>

\* load_config() with no variable of the environment set, but the API key.
DefaultConfig ==
    [ server |-> [ qps |-> 4 ],
      translation |-> [ default_lang_in |-> "en",
                        default_lang_out |-> "zh",
                        watermark_output_mode |-> "no_watermark",
                        no_dual |-> FALSE,
                        no_mono |-> FALSE ] ]

Configs == { DefaultConfig }

\* The form fields of POST /translate that are tried: none given, and the
\* fields of a request for a dual-only translation at its own rate.
Forms ==
    { [ lang_in |-> None, lang_out |-> None, qps |-> None,
        no_dual |-> None, no_mono |-> None, watermark_output_mode |-> None ],
      [ lang_in |-> Some("en"), lang_out |-> Some("zh"), qps |-> Some(2),
        no_dual |-> None, no_mono |-> Some(TRUE), watermark_output_mode |-> None ] }

\* Every combination of form fields over absent, falsy and other values, and
\* the configurations load_config() returns for other settings of the
\* environment: the inputs of the option defaults of translate_document.
LangValues == { None, Some(""), Some("fr") }
QpsValues == { None, Some(0), Some(2) }
FlagValues == { None, Some(FALSE), Some(TRUE) }
WatermarkNames ==
    { None, Some(""), Some("no_watermark"), Some("both"), Some("watermarked"),
      Some("No_Watermark") }

AllForms ==
    [ lang_in : LangValues, lang_out : LangValues, qps : QpsValues,
      no_dual : FlagValues, no_mono : FlagValues,
      watermark_output_mode : WatermarkNames ]

AllConfigs ==
    { [ server |-> [ qps |-> DefaultConfig.server.qps ],
        translation |-> [ default_lang_in |-> "en",
                          default_lang_out |-> "zh",
                          watermark_output_mode |-> w,
                          no_dual |-> d,
                          no_mono |-> m ] ] :
        w \in {"no_watermark", "both"}, d \in BOOLEAN, m \in BOOLEAN }

VARIABLES
    config,              \* the module-level config dictionary
    rate_limiter,        \* the engine's process-wide translate rate limiter
    config_obj,          \* task_id -> the TranslationConfig given to the engine
    translation_tasks,   \* task_id -> TranslationStatus
    task_files,          \* task_id -> (kind -> Path)
    temp_dirs,           \* directories made by tempfile.mkdtemp
    run_args,            \* task_id -> arguments of the scheduled run
    disk,                \* output paths that exist on disk
    pc,                  \* task_id -> position of its run
    loop,                \* the run holding the event loop, or NoTask
    event,               \* task_id -> the run's local `event`
    exc,                 \* task_id -> the exception caught by the run
    resp,                \* the last HTTP response, with its body
    client               \* the polling client: its position and its locals

vars == << config, rate_limiter, config_obj, translation_tasks, task_files,
           temp_dirs, run_args, disk, pc, loop, event, exc, resp, client >>

runvars == << pc, loop, event, exc >>

\* ------------------------------------------------------------ helpers
EmptyMap == [k \in {} |-> None]

\* dict.get(key, default)
Get(d, key, default) == IF key \in DOMAIN d THEN d[key] ELSE default

\* d[key] = value on a dict
Put(d, key, value) == [k \in DOMAIN d \cup {key} |-> IF k = key THEN value ELSE d[k]]

\* `a if a is not None else b` in the place of `a or b`.
Or_Presence(a, falsy, b) == IF a = None THEN b ELSE a[1]

\* `a or b` on an Optional: b when a is None or is the falsy value of its type.
Or(a, falsy, b) == IF a = None \/ a[1] = falsy THEN b ELSE a[1]

\* The flag taken from the configuration whatever the request says.
IfNotNone_ConfigOnly(a, b) == b

\* `a or b` in the place of `a if a is not None else b`.
IfNotNone_Truthy(a, b) == IF a = None \/ a[1] = FALSE THEN b ELSE a[1]

\* `a if a is not None else b`
IfNotNone(a, b) == IF a # None THEN a[1] ELSE b

LowerChar(c) ==
    CASE c = "A" -> "a"
      [] c = "P" -> "p"
      [] c = "D" -> "d"
      [] c = "F" -> "f"
      [] OTHER -> c

\* str.lower()
Lower(s) == [i \in 1..Len(s) |-> LowerChar(s[i])]

\* str.endswith(suffix)
EndsWith(s, suffix) ==
    /\ Len(s) >= Len(suffix)
    /\ SubSeq(s, Len(s) - Len(suffix) + 1, Len(s)) = suffix

PdfSuffix == <<".", "p", "d", "f">>

\* The test with the dot of the suffix forgotten.
IsPdfName_NoDot(filename) == EndsWith(Lower(filename), <<"p", "d", "f">>)

\* The test of translate_pdf's first statement.
IsPdfName(filename) == EndsWith(Lower(filename), PdfSuffix)

\* The polling client outside translate_pdf.
IdleClient == [pc |-> "idle"]

NoEvent == [type |-> "none"]
NoResp == [op |-> "none"]

\* TranslationStatus(task_id=..., status=..., message=...) with the class defaults.
TranslationStatus(task_id, status, message) ==
    [ task_id |-> task_id,
      status |-> status,
      progress |-> 0,
      message |-> message,
      result_files |-> EmptyMap ]

\* Lines 205-212: TranslationRequest(lang_in=lang_in, ...) from the form fields.
TranslationRequest(form) ==
    [ lang_in |-> form.lang_in,
      lang_out |-> form.lang_out,
      qps |-> form.qps,
      no_dual |-> form.no_dual,
      no_mono |-> form.no_mono,
      watermark_output_mode |-> form.watermark_output_mode ]

\* The path the engine writes the output of one kind to, inside the task's
\* output directory.
OutPath(t, kind) == << t, kind >>

\* ------------------------------------------------------------ engine events
ProgressEvents ==
    { [type |-> "progress_update", overall_progress |-> p, stage |-> "Translate"] :
        p \in ProgressValues }
    \cup { [type |-> "progress_update"] }

ErrorEvents == { [type |-> "error", error |-> x] : x \in ErrorTexts }
               \cup { [type |-> "error"] }

FinishEvents(t) ==
    { [type |-> "finish",
       translate_result |-> [dual_pdf_path |-> d, mono_pdf_path |-> m]] :
        d \in {None, OutPath(t, "dual")}, m \in {None, OutPath(t, "mono")} }

\* The output files named by a result object.
ResultPaths(result) == {result.dual_pdf_path, result.mono_pdf_path} \ {None}

Init ==
    /\ config \in Configs
    /\ rate_limiter = None
    /\ config_obj = EmptyMap
    /\ translation_tasks = EmptyMap
    /\ task_files = EmptyMap
    /\ temp_dirs = {}
    /\ run_args = EmptyMap
    /\ disk = {}
    /\ pc = [t \in TaskIds |-> "none"]
    /\ loop = NoTask
    /\ event = [t \in TaskIds |-> NoEvent]
    /\ exc = [t \in TaskIds |-> ""]
    /\ resp = NoResp
    /\ client = IdleClient

\* ------------------------------------------------------------ POST /translate
\* uuid.uuid4(): an id not handed out before.  Ids are opaque, so the
\* smallest free one stands for any fresh one.
\* An id generator that repeats an id it has handed out.
NewTaskId_Reused ==
    IF translation_tasks = EmptyMap THEN Cardinality(DOMAIN translation_tasks) + 1
    ELSE CHOOSE id \in DOMAIN translation_tasks : TRUE

NewTaskId == Cardinality(DOMAIN translation_tasks) + 1

\* One upload directory for every submission instead of mkdtemp().
NewTempDir_Shared == Cardinality({}) + 1

\* tempfile.mkdtemp(): a directory that did not exist.
NewTempDir == Cardinality(temp_dirs) + 1

\* The handler awaiting the run instead of scheduling it: the request is
\* answered after the run has ended, here with a failure.
translate_pdf_Inline(filename, form) ==
    /\ loop = NoTask
    /\ IF ~EndsWith(Lower(filename), <<".", "p", "d", "f">>)
       THEN /\ resp' = [op |-> "translate", filename |-> filename, code |-> 400]
            /\ UNCHANGED << translation_tasks, task_files, temp_dirs, run_args,
                            disk, runvars >>
       ELSE /\ NewTaskId \in TaskIds
            /\ LET task_id == NewTaskId
                   temp_dir == NewTempDir
               IN /\ temp_dirs' = temp_dirs \cup {temp_dir}
                  /\ translation_tasks' =
                        Put(translation_tasks, task_id,
                            [ task_id |-> task_id, status |-> "failed",
                              progress |-> 0,
                              message |-> << "translation error", "X1" >>,
                              result_files |-> EmptyMap ])
                  /\ run_args' =
                        Put(run_args, task_id,
                            [ pdf_file |-> << temp_dir, filename >>,
                              request |-> TranslationRequest(form),
                              output_dir |-> << temp_dir, <<"output">> >> ])
                  /\ pc' = [pc EXCEPT ![task_id] = "done"]
                  /\ resp' = [op |-> "translate", filename |-> filename,
                               code |-> 200, task_id |-> task_id]
            /\ UNCHANGED << task_files, disk, loop, event, exc >>
    /\ UNCHANGED << config, rate_limiter, config_obj >>

\* The handler scheduling the run without inserting the record.
translate_pdf_NoRecord(filename, form) ==
    /\ loop = NoTask
    /\ IF ~EndsWith(Lower(filename), <<".", "p", "d", "f">>)
       THEN /\ resp' = [op |-> "translate", filename |-> filename, code |-> 400]
            /\ UNCHANGED << translation_tasks, task_files, temp_dirs, run_args,
                            disk, runvars >>
       ELSE /\ \E task_id \in {t \in TaskIds : pc[t] = "none"} :
                  /\ temp_dirs' = temp_dirs \cup {Cardinality(temp_dirs) + 1}
                  /\ run_args' =
                        Put(run_args, task_id,
                            [ pdf_file |-> << Cardinality(temp_dirs) + 1, filename >>,
                              request |-> TranslationRequest(form),
                              output_dir |->
                                  << Cardinality(temp_dirs) + 1, <<"output">> >> ])
                  /\ pc' = [pc EXCEPT ![task_id] = "scheduled"]
                  /\ resp' = [op |-> "translate", filename |-> filename,
                               code |-> 200, task_id |-> task_id]
            /\ UNCHANGED << translation_tasks, task_files, disk, loop, event, exc >>
    /\ UNCHANGED << config, rate_limiter, config_obj >>

translate_pdf(filename, form) ==
    /\ loop = NoTask
    /\ IF ~IsPdfName(filename)
       THEN /\ resp' = [op |-> "translate", filename |-> filename, code |-> 400]
            /\ UNCHANGED << translation_tasks, task_files, temp_dirs, run_args,
                            disk, runvars >>
       ELSE /\ NewTaskId \in TaskIds
            /\ LET task_id == NewTaskId
                   temp_dir == NewTempDir
               IN /\ temp_dirs' = temp_dirs \cup {temp_dir}
                  /\ translation_tasks' =
                        Put(translation_tasks, task_id,
                            TranslationStatus(task_id, "pending", <<"created">>))
                  /\ run_args' =
                        Put(run_args, task_id,
                            [ pdf_file |-> << temp_dir, filename >>,
                              request |-> TranslationRequest(form),
                              output_dir |-> << temp_dir, <<"output">> >> ])
                  /\ pc' = [pc EXCEPT ![task_id] = "scheduled"]
                  /\ resp' = [op |-> "translate", filename |-> filename,
                               code |-> 200, task_id |-> task_id]
            /\ UNCHANGED << task_files, disk, loop, event, exc >>
    /\ UNCHANGED << config, rate_limiter, config_obj >>

\* ------------------------------------------------------------ translate_document
\* translation_tasks[task_id].<field> = value
SetFields(task_id, upd) ==
    [translation_tasks EXCEPT ![task_id] =
        [f \in DOMAIN @ |-> IF f \in DOMAIN upd THEN upd[f] ELSE @[f]]]

\* f"{stage} ({stage_current}/{stage_total})"
StageMessage(ev) ==
    << Get(ev, "stage", "processing"),
       Get(ev, "stage_current", "0"),
       Get(ev, "stage_total", "100") >>

\* f"翻译失败: {error}"
ErrorMessage(ev) == << "translation failed", Get(ev, "error", "unknown error") >>

\* f"翻译过程出错: {e}"
ExceptionMessage(e) == << "translation error", e >>

\* The run's first statements without the status write of line 80.
RunStart_NoProcessing(t) ==
    /\ pc[t] = "scheduled"
    /\ loop = NoTask
    /\ translation_tasks' =
          [translation_tasks EXCEPT ![t].message = <<"initializing">>]
    /\ pc' = [pc EXCEPT ![t] = "setup"]
    /\ loop' = t
    /\ UNCHANGED << task_files, temp_dirs, run_args, disk, event, exc, resp >>
    /\ UNCHANGED << config, rate_limiter, config_obj, client >>

\* Lines 80-81: the run's first statements.  A missing record would raise
\* KeyError here and again in the handler, and the run would end by the
\* exception leaving translate_document.
RunStart(t) ==
    /\ pc[t] = "scheduled"
    /\ loop = NoTask
    /\ IF t \in DOMAIN translation_tasks
       THEN /\ translation_tasks' =
                  SetFields(t, [status |-> "processing", message |-> <<"initializing">>])
            /\ pc' = [pc EXCEPT ![t] = "setup"]
            /\ loop' = t
       ELSE /\ pc' = [pc EXCEPT ![t] = "escaped"]
            /\ UNCHANGED << translation_tasks, loop >>
    /\ UNCHANGED << task_files, temp_dirs, run_args, disk, event, exc, resp >>
    /\ UNCHANGED << config, rate_limiter, config_obj, client >>

\* Line 93: the argument of set_translate_rate_limiter.
RateLimit(request) == Or(request.qps, 0, config.server.qps)

\* The mode looked up by its name, with no mode for a name that is none of
\* the three.
WatermarkMode_Lookup(name) ==
    IF name = "no_watermark" THEN "NoWatermark"
    ELSE IF name = "both" THEN "Both"
    ELSE IF name = "watermarked" THEN "Watermarked"
    ELSE "KeyError"

\* Lines 98-103: the WatermarkOutputMode chosen for a mode name.
WatermarkMode(name) ==
    IF name = "no_watermark" THEN "NoWatermark"
    ELSE IF name = "both" THEN "Both"
    ELSE "Watermarked"

\* Lines 84-91: the OpenAITranslator built for the run (its language pair).
OpenAITranslator(request) ==
    [ lang_in |-> Or(request.lang_in, "", config.translation.default_lang_in),
      lang_out |-> Or(request.lang_out, "", config.translation.default_lang_out) ]

\* Lines 105-145: the TranslationConfig built for the engine (the options
\* that come from the request or the configuration).
TranslationConfig(pdf_file, request, output_dir) ==
    [ input_file |-> pdf_file,
      output_dir |-> output_dir,
      translator |-> OpenAITranslator(request),
      lang_in |-> Or(request.lang_in, "", config.translation.default_lang_in),
      lang_out |-> Or(request.lang_out, "", config.translation.default_lang_out),
      no_dual |-> IfNotNone(request.no_dual, config.translation.no_dual),
      no_mono |-> IfNotNone(request.no_mono, config.translation.no_mono),
      qps |-> Or(request.qps, 0, config.server.qps),
      watermark_output_mode |->
          WatermarkMode(Or(request.watermark_output_mode, "",
                           config.translation.watermark_output_mode)) ]

\* Lines 84-147: translator, rate limiter, layout model and configuration are
\* built; any of the constructors may raise, before or after the rate limiter
\* is set.  set_translate_rate_limiter takes no translator and returns nothing:
\* it sets the limiter every translator of the process shares.
Setup(t) ==
    /\ pc[t] = "setup"
    /\ loop = t
    /\ \/ /\ rate_limiter' = Some(RateLimit(run_args[t].request))
          /\ config_obj' =
                Put(config_obj, t,
                    TranslationConfig(run_args[t].pdf_file, run_args[t].request,
                                      run_args[t].output_dir))
          /\ translation_tasks' = SetFields(t, [message |-> <<"translating">>])
          /\ pc' = [pc EXCEPT ![t] = "await"]
          /\ loop' = NoTask
          /\ UNCHANGED exc
       \/ \E x \in ExcTexts :
             /\ rate_limiter' \in
                   {rate_limiter, Some(RateLimit(run_args[t].request))}
             /\ exc' = [exc EXCEPT ![t] = x]
             /\ pc' = [pc EXCEPT ![t] = "except"]
             /\ UNCHANGED << config_obj, translation_tasks, loop >>
    /\ UNCHANGED << config, task_files, temp_dirs, run_args, disk, event, resp,
                    client >>

\* The progress written to the record of the task submitted last instead of
\* the run's own.
ProgressUpdate_LastTask(t, ev) ==
    /\ pc[t] = "await"
    /\ loop = NoTask
    /\ ev.type = "progress_update"
    /\ event' = [event EXCEPT ![t] = ev]
    /\ translation_tasks' =
          [translation_tasks EXCEPT
              ![Cardinality(DOMAIN translation_tasks)].progress =
                  Get(ev, "overall_progress", 0),
              ![Cardinality(DOMAIN translation_tasks)].message = StageMessage(ev)]
    /\ UNCHANGED << task_files, temp_dirs, run_args, disk, pc, loop, exc, resp >>
    /\ UNCHANGED << config, rate_limiter, config_obj, client >>

\* Lines 149-152: a progress_update event.
ProgressUpdate(t, ev) ==
    /\ pc[t] = "await"
    /\ loop = NoTask
    /\ ev.type = "progress_update"
    /\ event' = [event EXCEPT ![t] = ev]
    /\ translation_tasks' =
          SetFields(t, [progress |-> Get(ev, "overall_progress", 0),
                        message |-> StageMessage(ev)])
    /\ UNCHANGED << task_files, temp_dirs, run_args, disk, pc, loop, exc, resp >>
    /\ UNCHANGED << config, rate_limiter, config_obj, client >>

\* The error branch without its `return`: the loop goes on to the next event.
ErrorEvent_NoReturn(t, ev) ==
    /\ pc[t] = "await"
    /\ loop = NoTask
    /\ ev.type = "error"
    /\ event' = [event EXCEPT ![t] = ev]
    /\ translation_tasks' =
          [translation_tasks EXCEPT ![t].status = "failed",
                                    ![t].message =
                                        << "translation failed",
                                           Get(ev, "error", "unknown error") >>]
    /\ UNCHANGED << task_files, temp_dirs, run_args, disk, pc, loop, exc, resp >>
    /\ UNCHANGED << config, rate_limiter, config_obj, client >>

\* Lines 153-157: an error event; the run returns.
ErrorEvent(t, ev) ==
    /\ pc[t] = "await"
    /\ loop = NoTask
    /\ ev.type = "error"
    /\ event' = [event EXCEPT ![t] = ev]
    /\ translation_tasks' =
          SetFields(t, [status |-> "failed", message |-> ErrorMessage(ev)])
    /\ pc' = [pc EXCEPT ![t] = "done"]
    /\ UNCHANGED << task_files, temp_dirs, run_args, disk, loop, exc, resp >>
    /\ UNCHANGED << config, rate_limiter, config_obj, client >>

\* The finish branch assigning result_files from the result's paths before
\* they are tested.
FinishEvent_EagerFiles(t, ev) ==
    /\ pc[t] = "await"
    /\ loop = NoTask
    /\ ev.type = "finish"
    /\ event' = [event EXCEPT ![t] = ev]
    /\ disk' = disk \cup ResultPaths(ev.translate_result)
    /\ translation_tasks' =
          [translation_tasks EXCEPT
              ![t].status = "completed",
              ![t].progress = 100,
              ![t].message = <<"completed">>,
              ![t].result_files =
                  [ k \in {kk \in FileKinds :
                              OutPath(t, kk) \in ResultPaths(ev.translate_result)} |->
                      OutPath(t, k) ]]
    /\ pc' = [pc EXCEPT ![t] = "register"]
    /\ loop' = t
    /\ UNCHANGED << task_files, temp_dirs, run_args, exc, resp >>
    /\ UNCHANGED << config, rate_limiter, config_obj, client >>

\* Lines 158-162: a finish event.  The engine has written the files its
\* result names.  The record is marked completed before the result is looked at.
FinishEvent(t, ev) ==
    /\ pc[t] = "await"
    /\ loop = NoTask
    /\ ev.type = "finish"
    /\ event' = [event EXCEPT ![t] = ev]
    /\ disk' = disk \cup ResultPaths(ev.translate_result)
    /\ translation_tasks' =
          SetFields(t, [status |-> "completed", progress |-> 100,
                        message |-> <<"completed">>])
    /\ pc' = [pc EXCEPT ![t] = "register"]
    /\ loop' = t
    /\ UNCHANGED << task_files, temp_dirs, run_args, exc, resp >>
    /\ UNCHANGED << config, rate_limiter, config_obj, client >>

\* `path and Path(path).exists()`: a None path short-circuits, so exists()
\* is not called; otherwise the answer of the file system, or an OSError
\* that exists() does not swallow.
ExistsOutcomes(path) ==
    IF path = None THEN {"no"}
    ELSE { IF path \in disk THEN "yes" ELSE "no", "raise" }

\* str(path): the string of a path object, and Path(v): the path object of
\* a string.  A string and a path object are different values.
Str(path) == << "str" >> \o path

Path(v) == Tail(v)

\* Lines 164-168: the local result_files built from the outcomes of the two
\* tests; its values are strings.
ResultFiles(result, dual, mono) ==
    [ k \in {kk \in FileKinds : \/ kk = "dual" /\ dual = "yes"
                                \/ kk = "mono" /\ mono = "yes"} |->
        Str(IF k = "dual" THEN result.dual_pdf_path ELSE result.mono_pdf_path) ]

\* Line 171: {k: Path(v) for k, v in result_files.items()}
PathsOf(result_files) == [ k \in DOMAIN result_files |-> Path(result_files[k]) ]

\* Every path the result names registered, whether it was found or not.
Register_RawPaths(t) ==
    /\ pc[t] = "register"
    /\ loop = t
    /\ LET result == event[t].translate_result
       IN \E dual \in ExistsOutcomes(result.dual_pdf_path),
             mono \in ExistsOutcomes(result.mono_pdf_path) :
             IF dual = "raise" \/ mono = "raise"
             THEN /\ \E x \in ExcTexts : exc' = [exc EXCEPT ![t] = x]
                  /\ pc' = [pc EXCEPT ![t] = "except"]
                  /\ UNCHANGED << translation_tasks, task_files, loop >>
             ELSE /\ translation_tasks' =
                        [translation_tasks EXCEPT ![t].result_files =
                            ResultFiles(result, dual, mono)]
                  /\ task_files' =
                        Put(task_files, t,
                            [ k \in {kk \in FileKinds :
                                        OutPath(t, kk) \in ResultPaths(result)} |->
                                OutPath(t, k) ])
                  /\ pc' = [pc EXCEPT ![t] = "done"]
                  /\ loop' = NoTask
                  /\ UNCHANGED exc
    /\ UNCHANGED << temp_dirs, run_args, disk, event, resp >>
    /\ UNCHANGED << config, rate_limiter, config_obj, client >>

\* Lines 164-174: the two paths are tested and the result is registered; the
\* loop is left and the run returns.  An exception from either test leaves
\* for the handler with nothing registered.
Register(t) ==
    /\ pc[t] = "register"
    /\ loop = t
    /\ LET result == event[t].translate_result
       IN \E dual \in ExistsOutcomes(result.dual_pdf_path),
             mono \in ExistsOutcomes(result.mono_pdf_path) :
             IF dual = "raise" \/ mono = "raise"
             THEN /\ \E x \in ExcTexts : exc' = [exc EXCEPT ![t] = x]
                  /\ pc' = [pc EXCEPT ![t] = "except"]
                  /\ UNCHANGED << translation_tasks, task_files, loop >>
             ELSE /\ translation_tasks' =
                        SetFields(t, [result_files |-> ResultFiles(result, dual, mono)])
                  /\ task_files' =
                        Put(task_files, t, PathsOf(ResultFiles(result, dual, mono)))
                  /\ pc' = [pc EXCEPT ![t] = "done"]
                  /\ loop' = NoTask
                  /\ UNCHANGED exc
    /\ UNCHANGED << temp_dirs, run_args, disk, event, resp >>
    /\ UNCHANGED << config, rate_limiter, config_obj, client >>

\* Line 149: the stream ends without a finish or an error event; the
\* function falls off its end.
StreamEnd(t) ==
    /\ pc[t] = "await"
    /\ loop = NoTask
    /\ pc' = [pc EXCEPT ![t] = "done"]
    /\ UNCHANGED << translation_tasks, task_files, temp_dirs, run_args, disk, loop,
                    event, exc, resp >>
    /\ UNCHANGED << config, rate_limiter, config_obj, client >>

\* Line 149: the engine raises while the stream is iterated.
StreamRaise(t, x) ==
    /\ pc[t] = "await"
    /\ loop = NoTask
    /\ exc' = [exc EXCEPT ![t] = x]
    /\ pc' = [pc EXCEPT ![t] = "except"]
    /\ loop' = t
    /\ UNCHANGED << translation_tasks, task_files, temp_dirs, run_args, disk,
                    event, resp >>
    /\ UNCHANGED << config, rate_limiter, config_obj, client >>

\* The handler scheduling the run again after recording the failure.
Except_Retry(t) ==
    /\ pc[t] = "except"
    /\ loop = t
    /\ translation_tasks' =
          [translation_tasks EXCEPT ![t].status = "failed",
                                    ![t].message = << "translation error", exc[t] >>]
    /\ exc' = [exc EXCEPT ![t] = ""]
    /\ pc' = [pc EXCEPT ![t] = "scheduled"]
    /\ loop' = NoTask
    /\ UNCHANGED << task_files, temp_dirs, run_args, disk, event, resp >>
    /\ UNCHANGED << config, rate_limiter, config_obj, client >>

\* The handler re-raising instead of recording: the exception leaves
\* translate_document.
Except_Reraise(t) ==
    /\ pc[t] = "except"
    /\ loop = t
    /\ pc' = [pc EXCEPT ![t] = "escaped"]
    /\ loop' = NoTask
    /\ UNCHANGED << translation_tasks, task_files, temp_dirs, run_args, disk,
                    event, exc, resp >>
    /\ UNCHANGED << config, rate_limiter, config_obj, client >>

\* Lines 176-179: the handler of `except Exception`.
Except(t) ==
    /\ pc[t] = "except"
    /\ loop = t
    /\ translation_tasks' =
          SetFields(t, [status |-> "failed", message |-> ExceptionMessage(exc[t])])
    /\ exc' = [exc EXCEPT ![t] = ""]
    /\ pc' = [pc EXCEPT ![t] = "done"]
    /\ loop' = NoTask
    /\ UNCHANGED << task_files, temp_dirs, run_args, disk, event, resp >>
    /\ UNCHANGED << config, rate_limiter, config_obj, client >>

\* ------------------------------------------------------------ GET /status
\* The record looked up in the wrong dictionary.
StatusCode_TaskFiles(task_id) == IF task_id \notin DOMAIN task_files THEN 404 ELSE 200

StatusCode(task_id) == IF task_id \notin DOMAIN translation_tasks THEN 404 ELSE 200

\* The handler run on a worker thread: it reads the record while a run is
\* between two awaits.
get_translation_status_Threaded(task_id) ==
    /\ resp' = IF task_id \notin DOMAIN translation_tasks
               THEN [op |-> "status", task_id |-> task_id, code |-> 404]
               ELSE [op |-> "status", task_id |-> task_id, code |-> 200,
                     body |-> translation_tasks[task_id]]
    /\ UNCHANGED << translation_tasks, task_files, temp_dirs, run_args, disk,
                    runvars >>
    /\ UNCHANGED << config, rate_limiter, config_obj >>

get_translation_status(task_id) ==
    /\ loop = NoTask
    /\ resp' = IF StatusCode(task_id) = 404
               THEN [op |-> "status", task_id |-> task_id, code |-> 404]
               ELSE [op |-> "status", task_id |-> task_id, code |-> 200,
                     body |-> translation_tasks[task_id]]
    /\ UNCHANGED << translation_tasks, task_files, temp_dirs, run_args, disk,
                    runvars >>
    /\ UNCHANGED << config, rate_limiter, config_obj >>

\* ------------------------------------------------------------ GET /download
\* The registration looked up before the status.
DownloadCode_RegisteredFirst(task_id, file_type) ==
    IF task_id \notin DOMAIN translation_tasks THEN 404
    ELSE IF task_id \notin DOMAIN task_files
            \/ file_type \notin DOMAIN task_files[task_id] THEN 404
    ELSE IF translation_tasks[task_id].status # "completed" THEN 400
    ELSE IF task_files[task_id][file_type] \notin disk THEN 404
    ELSE 200

\* The test that the file still exists left out.
DownloadCode_NoExistsCheck(task_id, file_type) ==
    IF task_id \notin DOMAIN translation_tasks THEN 404
    ELSE IF translation_tasks[task_id].status # "completed" THEN 400
    ELSE IF task_id \notin DOMAIN task_files
            \/ file_type \notin DOMAIN task_files[task_id] THEN 404
    ELSE 200

DownloadCode(task_id, file_type) ==
    IF task_id \notin DOMAIN translation_tasks THEN 404
    ELSE IF translation_tasks[task_id].status # "completed" THEN 400
    ELSE IF task_id \notin DOMAIN task_files
            \/ file_type \notin DOMAIN task_files[task_id] THEN 404
    ELSE IF task_files[task_id][file_type] \notin disk THEN 404
    ELSE 200

\* The handler forgetting a file once it has been served.
download_result_Pop(task_id, file_type) ==
    /\ loop = NoTask
    /\ resp' = [op |-> "download", task_id |-> task_id, file_type |-> file_type,
                code |-> DownloadCode(task_id, file_type)]
    /\ task_files' =
          IF DownloadCode(task_id, file_type) = 200
          THEN [task_files EXCEPT ![task_id] =
                   [k \in DOMAIN @ \ {file_type} |-> @[k]]]
          ELSE task_files
    /\ UNCHANGED << translation_tasks, temp_dirs, run_args, disk, runvars >>
    /\ UNCHANGED << config, rate_limiter, config_obj >>

\* The handler run on a worker thread: it reads both dictionaries while a
\* run is between two awaits.
download_result_Threaded(task_id, file_type) ==
    /\ resp' = [op |-> "download", task_id |-> task_id, file_type |-> file_type,
                code |-> DownloadCode(task_id, file_type)]
    /\ UNCHANGED << translation_tasks, task_files, temp_dirs, run_args, disk,
                    runvars >>
    /\ UNCHANGED << config, rate_limiter, config_obj >>

download_result(task_id, file_type) ==
    /\ loop = NoTask
    /\ resp' = [op |-> "download", task_id |-> task_id, file_type |-> file_type,
                code |-> DownloadCode(task_id, file_type)]
    /\ UNCHANGED << translation_tasks, task_files, temp_dirs, run_args, disk,
                    runvars >>
    /\ UNCHANGED << config, rate_limiter, config_obj >>

\* ------------------------------------------------------------ GET /health, GET /
health_check ==
    /\ loop = NoTask
    /\ resp' = [op |-> "health", code |-> 200, status |-> "healthy"]
    /\ UNCHANGED << translation_tasks, task_files, temp_dirs, run_args, disk,
                    runvars >>
    /\ UNCHANGED << config, rate_limiter, config_obj >>

root ==
    /\ loop = NoTask
    /\ resp' = [op |-> "root", code |-> 200, version |-> "0.4.16",
                config |-> [ default_lang_in |-> config.translation.default_lang_in,
                             default_lang_out |-> config.translation.default_lang_out,
                             qps |-> config.server.qps ]]
    /\ UNCHANGED << translation_tasks, task_files, temp_dirs, run_args, disk,
                    runvars >>
    /\ UNCHANGED << config, rate_limiter, config_obj >>

\* ------------------------------------------------------------ environment
\* An output file is removed from disk by something outside the server.
RemoveFile(p) ==
    /\ p \in disk
    /\ disk' = disk \ {p}
    /\ UNCHANGED << translation_tasks, task_files, temp_dirs, run_args, runvars, resp >>
    /\ UNCHANGED << config, rate_limiter, config_obj, client >>

\* ------------------------------------------------------------ specification
RequestIds == TaskIds \cup {UnknownId}

Next ==
    \/ \E fn \in Filenames : \E form \in Forms :
          translate_pdf(fn, form) /\ UNCHANGED client
    \/ \E t \in TaskIds : RunStart(t)
    \/ \E t \in TaskIds : Setup(t)
    \/ \E t \in TaskIds : \E ev \in ProgressEvents : ProgressUpdate(t, ev)
    \/ \E t \in TaskIds : \E ev \in ErrorEvents : ErrorEvent(t, ev)
    \/ \E t \in TaskIds : \E ev \in FinishEvents(t) : FinishEvent(t, ev)
    \/ \E t \in TaskIds : Register(t)
    \/ \E t \in TaskIds : StreamEnd(t)
    \/ \E t \in TaskIds : \E x \in ExcTexts : StreamRaise(t, x)
    \/ \E t \in TaskIds : Except(t)
    \/ \E id \in RequestIds : get_translation_status(id) /\ UNCHANGED client
    \/ \E id \in RequestIds : \E ft \in FileTypes :
          download_result(id, ft) /\ UNCHANGED client
    \/ health_check /\ UNCHANGED client
    \/ root /\ UNCHANGED client
    \/ \E p \in disk : RemoveFile(p)

Spec == Init /\ [][Next]_vars

\* The option defaults of translate_document over every form and
\* configuration: one submission under any configuration, and its run up to
\* the engine's start.
OptionsInit ==
    /\ config \in AllConfigs
    /\ rate_limiter = None
    /\ config_obj = EmptyMap
    /\ translation_tasks = EmptyMap
    /\ task_files = EmptyMap
    /\ temp_dirs = {}
    /\ run_args = EmptyMap
    /\ disk = {}
    /\ pc = [t \in TaskIds |-> "none"]
    /\ loop = NoTask
    /\ event = [t \in TaskIds |-> NoEvent]
    /\ exc = [t \in TaskIds |-> ""]
    /\ resp = NoResp
    /\ client = IdleClient

OptionsNext ==
    \/ \E fn \in Filenames : \E form \in AllForms :
          translation_tasks = EmptyMap /\ translate_pdf(fn, form)
                                       /\ UNCHANGED client
    \/ \E t \in TaskIds : RunStart(t)
    \/ \E t \in TaskIds : Setup(t)
    \/ \E t \in TaskIds : Except(t)

SpecOptions == OptionsInit /\ [][OptionsNext]_vars

\* ------------------------------------------------------------ polling client
\* GradioClient.translate_pdf (gradio_client.py): submit, poll until the task
\* is completed or failed or the hour is over, download what the last poll
\* listed.  The client talks to the server through BabelDOCClient, whose
\* methods are the HTTP calls of the four endpoints.
server == << config, rate_limiter, config_obj, translation_tasks, task_files,
             temp_dirs, run_args, disk, pc, loop, event, exc, resp >>

\* The upload is saved as input_<time>.pdf before it is sent.
ClientFilename == << "i", ".", "p", "d", "f" >>

\* The client sends the two languages or nothing.
ClientForms ==
    { [ lang_in |-> li, lang_out |-> lo, qps |-> None,
        no_dual |-> None, no_mono |-> None, watermark_output_mode |-> None ] :
        li \in {None, Some("en")}, lo \in {None} }

\* The order of the download loop.
ClientKinds == << "dual", "mono" >>

BabelDOCClient_translate_pdf(filename, form) == translate_pdf(filename, form)

BabelDOCClient_get_status(task_id) == get_translation_status(task_id)

BabelDOCClient_download_result(task_id, file_type) ==
    download_result(task_id, file_type)

\* Lines 98-107: the task is submitted.  A refusal raises in the client and
\* translate_pdf returns through its `except Exception`.
ClientSubmit(form) ==
    /\ client.pc = "idle"
    /\ BabelDOCClient_translate_pdf(ClientFilename, form)
    /\ client' = IF resp'.code = 200
                  THEN [pc |-> "poll", task_id |-> resp'.task_id]
                  ELSE IdleClient

\* The download loop entered on every status but failed.
ClientPoll_Eager ==
    /\ client.pc = "poll"
    /\ BabelDOCClient_get_status(client.task_id)
    /\ client' =
          IF resp'.code # 200 THEN IdleClient
          ELSE IF resp'.body.status = "failed" THEN IdleClient
          ELSE [ pc |-> "download", task_id |-> client.task_id,
                 status |-> resp'.body, ftypes |-> << "dual", "mono" >> ]

\* Lines 109-170: one turn of the polling loop.  completed leads to the
\* downloads, failed to the return, anything else to the next poll after the
\* sleep.
ClientPoll ==
    /\ client.pc = "poll"
    /\ BabelDOCClient_get_status(client.task_id)
    /\ client' =
          IF resp'.code # 200 THEN IdleClient
          ELSE IF resp'.body.status = "completed"
          THEN [ pc |-> "download", task_id |-> client.task_id,
                 status |-> resp'.body, ftypes |-> ClientKinds ]
          ELSE IF resp'.body.status = "failed" THEN IdleClient
          ELSE client

\* Lines 129-132: one turn of the download loop.  A kind the poll did not
\* list is skipped; a download that is refused either returns False or raises,
\* and raising ends translate_pdf.
ClientDownload ==
    /\ client.pc = "download"
    /\ client.ftypes # << >>
    /\ LET ftype == Head(client.ftypes)
           next == [client EXCEPT !.ftypes = Tail(@)]
       IN IF ftype \in DOMAIN client.status.result_files
          THEN /\ BabelDOCClient_download_result(client.task_id, ftype)
               /\ client' \in IF resp'.code = 200 THEN {next}
                               ELSE {next, IdleClient}
          ELSE /\ client' = next
               /\ UNCHANGED server

\* Lines 134-153: the loop is over and translate_pdf returns.
ClientReturn ==
    /\ client.pc = "download"
    /\ client.ftypes = << >>
    /\ client' = IdleClient
    /\ UNCHANGED server

\* Lines 109, 174-181: the hour is over; translate_pdf returns and nothing is
\* sent to the server.
ClientTimeout ==
    /\ client.pc = "poll"
    /\ client' = IdleClient
    /\ UNCHANGED server

ClientNext ==
    \/ \E form \in ClientForms : ClientSubmit(form)
    \/ ClientPoll
    \/ ClientDownload
    \/ ClientReturn
    \/ ClientTimeout
    \/ \E t \in TaskIds : RunStart(t)
    \/ \E t \in TaskIds : Setup(t)
    \/ \E t \in TaskIds : \E ev \in ProgressEvents : ProgressUpdate(t, ev)
    \/ \E t \in TaskIds : \E ev \in ErrorEvents : ErrorEvent(t, ev)
    \/ \E t \in TaskIds : \E ev \in FinishEvents(t) : FinishEvent(t, ev)
    \/ \E t \in TaskIds : Register(t)
    \/ \E t \in TaskIds : StreamEnd(t)
    \/ \E t \in TaskIds : \E x \in ExcTexts : StreamRaise(t, x)
    \/ \E t \in TaskIds : Except(t)
    \/ \E p \in disk : RemoveFile(p)

SpecClient == Init /\ [][ClientNext]_vars

\* ------------------------------------------------------------ properties
Terminal == {"completed", "failed"}

\* r is a 200 answer of GET /status for task t.
IsPoll(r, t) == r.op = "status" /\ r.task_id = t /\ r.code = 200

\* r is the answer of a request that this step served.
Served(r, op) == r # resp /\ r.op = op

\* The run of t was scheduled by an accepted POST /translate.
Allocated(id) == id \in TaskIds /\ pc[id] # "none"

\* C1: once a poll of a task has reported completed or failed, the next poll
\* of that task reports the same status, whatever the run and the engine do
\* in between (the polls of a task are compared in the order they are
\* answered; requests between them that are not polls of the task read the
\* state and do not change what the second poll sees).
C1_TerminalAbsorbing ==
    [][ \A t \in TaskIds :
          (IsPoll(resp, t) /\ resp.body.status \in Terminal /\ IsPoll(resp', t))
              => resp'.body.status = resp.body.status ]_vars

C1_Witness ==
    \E t \in TaskIds :
        /\ IsPoll(resp, t)
        /\ resp.body.status = "failed"
        /\ resp.body.progress = 100
        /\ event[t].type = "finish"

\* C2: two successive polls of a task that both report processing report
\* progress values in non-decreasing order (stated as the claim states it;
\* the run overwrites progress with whatever the engine sends).
C2_ProgressMonotone ==
    [][ \A t \in TaskIds :
          ( /\ IsPoll(resp, t) /\ resp.body.status = "processing"
            /\ IsPoll(resp', t) /\ resp'.body.status = "processing" )
              => resp.body.progress <= resp'.body.progress ]_vars

\* C3: a run that has returned has left its task completed or failed
\* (stated as the claim states it; a stream that ends without a finish or an
\* error event leaves the task processing).
C3_RunEndsTerminal ==
    \A t \in TaskIds :
        pc[t] = "done" => translation_tasks[t].status \in Terminal

\* C4: when POST /translate answers 200 the record of the new task exists
\* with status pending and its run is scheduled and not started; the run has
\* written nothing while it is only scheduled, so its first status write
\* finds the record pending.
C4_PendingAtReturn ==
    /\ [][ \A t \in TaskIds :
             (Served(resp', "translate") /\ resp'.code = 200 /\ resp'.task_id = t)
                 => /\ t \in DOMAIN translation_tasks'
                    /\ translation_tasks'[t].status \in {"pending", "processing"}
                    /\ translation_tasks'[t].status \notin Terminal
                    /\ pc'[t] = "scheduled" ]_vars
    /\ [](\A t \in TaskIds :
             pc[t] = "scheduled"
                 => t \in DOMAIN translation_tasks
                    /\ translation_tasks[t].status = "pending")

C4_Witness ==
    /\ resp.op = "translate"
    /\ resp.code = 200
    /\ resp.task_id = 2
    /\ translation_tasks[2].status = "pending"
    /\ translation_tasks[1].status = "processing"

\* C5: a POST /translate whose file name, compared without regard to case as
\* the handler compares it, does not end in .pdf is answered 400 and changes
\* nothing: no record, no file entry, no temporary directory, no scheduled run.
C5_NonPdfRejected ==
    [][ ( /\ Served(resp', "translate")
          /\ LET n == Len(resp'.filename)
             IN ~( /\ n >= 4
                   /\ resp'.filename[n - 3] = "."
                   /\ resp'.filename[n - 2] \in {"p", "P"}
                   /\ resp'.filename[n - 1] \in {"d", "D"}
                   /\ resp'.filename[n] \in {"f", "F"} ) )
            => /\ resp'.code = 400
               /\ UNCHANGED << translation_tasks, task_files, temp_dirs, run_args,
                               disk, pc, loop, event, exc, rate_limiter,
                               config_obj >> ]_vars

C5_Witness ==
    /\ resp.op = "translate"
    /\ resp.code = 400
    /\ resp.filename = << "p", "d", "f" >>
    /\ DOMAIN translation_tasks = {1}

\* C6: GET /download answers 400 for a known task that is pending, processing
\* or failed, for every file_type, and 404 for a completed task whose record's
\* result_files has no entry for file_type.
C6_DownloadNotReady ==
    [][ \A t \in TaskIds :
          (Served(resp', "download") /\ resp'.task_id = t
             /\ t \in DOMAIN translation_tasks)
              => /\ translation_tasks[t].status # "completed" => resp'.code = 400
                 /\ ( /\ translation_tasks[t].status = "completed"
                      /\ resp'.file_type \notin DOMAIN translation_tasks[t].result_files )
                        => resp'.code = 404 ]_vars

C6_Witness ==
    \E t \in TaskIds :
        /\ resp.op = "download"
        /\ resp.task_id = t
        /\ resp.code = 404
        /\ t \in DOMAIN translation_tasks
        /\ translation_tasks[t].status = "completed"
        /\ DOMAIN translation_tasks[t].result_files = {"dual"}
        /\ resp.file_type = "mono"

\* C7: GET /status answers 404 for an id no accepted POST /translate
\* allocated and 200 with the current record for an id one did; no step removes
\* a record, so an id that was answered 200 is never answered 404 later.
C7_StatusKnownUnknown ==
    [][ /\ Served(resp', "status")
           => IF Allocated(resp'.task_id)
              THEN /\ resp'.code = 200
                   /\ resp'.body = translation_tasks[resp'.task_id]
              ELSE resp'.code = 404
        /\ \A t \in TaskIds : Allocated(t) => Allocated(t)'
        /\ \A t \in TaskIds :
              (IsPoll(resp, t) /\ Served(resp', "status") /\ resp'.task_id = t)
                  => resp'.code = 200 ]_vars

C7_Witness ==
    /\ resp.op = "status"
    /\ resp.code = 404
    /\ resp.task_id = 2
    /\ Allocated(1)
    /\ translation_tasks[1].status = "completed"

\* C8: the answer of GET /download is decided in this order: unknown task 404,
\* task not completed 400, kind not registered 404, registered file not on
\* disk 404, and 200 otherwise; so it is 200 exactly when the task is known and
\* completed, the kind is registered and the file exists.
C8_DownloadPrecedence ==
    [][ Served(resp', "download")
          => LET t == resp'.task_id
                 k == resp'.file_type
                 known == t \in DOMAIN translation_tasks
                 completed == known /\ translation_tasks[t].status = "completed"
                 registered == completed /\ t \in DOMAIN task_files
                                         /\ k \in DOMAIN task_files[t]
                 present == registered /\ task_files[t][k] \in disk
             IN /\ resp'.code = 200 <=> present
                /\ ~known => resp'.code = 404
                /\ (known /\ ~completed) => resp'.code = 400
                /\ (completed /\ ~present) => resp'.code = 404 ]_vars

C8_Witness ==
    \E t \in TaskIds :
        /\ resp.op = "download"
        /\ resp.task_id = t
        /\ resp.code = 404
        /\ t \in DOMAIN translation_tasks
        /\ translation_tasks[t].status = "completed"
        /\ t \in DOMAIN task_files
        /\ resp.file_type \in DOMAIN task_files[t]
        /\ task_files[t][resp.file_type] \notin disk

\* The progress the last progress_update before the current event set, 0
\* when there was none.
LastReported(ev) ==
    IF ev.type = "progress_update" THEN Get(ev, "overall_progress", 0) ELSE 0

\* C9: an error event takes the task from processing to failed, leaves
\* progress at the value of the last progress_update (0 when there was none),
\* puts the engine's error text into message, leaves result_files empty, and
\* ends the run: no later step changes the record.
C9_ErrorEventFails ==
    [][ \A t \in TaskIds :
          /\ (event'[t] # event[t] /\ event'[t].type = "error")
                => /\ translation_tasks[t].status = "processing"
                   /\ translation_tasks'[t].status = "failed"
                   /\ translation_tasks'[t].progress = translation_tasks[t].progress
                   /\ translation_tasks'[t].progress = LastReported(event[t])
                   /\ "error" \in DOMAIN event'[t]
                        => \E i \in DOMAIN translation_tasks'[t].message :
                              translation_tasks'[t].message[i] = event'[t].error
                   /\ translation_tasks'[t].result_files = EmptyMap
                   /\ t \notin DOMAIN task_files'
          /\ (event[t].type = "error")
                => /\ translation_tasks'[t] = translation_tasks[t]
                   /\ event'[t] = event[t] ]_vars

C9_Witness ==
    \E t \in TaskIds :
        /\ event[t].type = "error"
        /\ translation_tasks[t].status = "failed"
        /\ translation_tasks[t].progress = 70
        /\ translation_tasks[t].message[2] = "E1"

\* C10: after a finish event the run ends with status completed, progress 100
\* and result_files holding only kinds whose path the result gives (stated as
\* the claim states it; the record is marked completed before the paths are
\* tested, and an exception from the test marks it failed).
C10_FinishCompletes ==
    \A t \in TaskIds :
        (event[t].type = "finish" /\ pc[t] = "done")
            => /\ translation_tasks[t].status = "completed"
               /\ translation_tasks[t].progress = 100
               /\ \A k \in DOMAIN translation_tasks[t].result_files :
                     OutPath(t, k) \in ResultPaths(event[t].translate_result)

\* C11: an exception raised in the run (while the translator, the layout
\* model or the configuration is built, while the stream is iterated, or while
\* an event is handled) is caught by the run: the next step of the run is the
\* handler, which sets status failed and puts the exception's text into
\* message, and the run returns; no exception leaves translate_document.  The
\* run exists only because its POST /translate was answered 200, and neither
\* the raise nor the handler changes an HTTP answer.
C11_ExceptionCaught ==
    /\ [][ \A t \in TaskIds :
             /\ (pc[t] # "except" /\ pc'[t] = "except")
                   => /\ Allocated(t)
                      /\ exc'[t] \in ExcTexts
                      /\ resp' = resp
             /\ (pc[t] = "except" /\ pc'[t] # "except")
                   => /\ pc'[t] = "done"
                      /\ translation_tasks'[t].status = "failed"
                      /\ \E i \in DOMAIN translation_tasks'[t].message :
                            translation_tasks'[t].message[i] = exc[t]
                      /\ resp' = resp ]_vars
    /\ [](\A t \in TaskIds : pc[t] # "escaped")

C11_Witness ==
    \E t \in TaskIds :
        /\ pc[t] = "done"
        /\ event[t].type = "progress_update"
        /\ translation_tasks[t].status = "failed"
        /\ translation_tasks[t].message = ExceptionMessage("X1")

\* C12: in every state, a task whose result_files is not empty has status
\* completed; a pending, processing or failed task has empty result_files,
\* also one that failed in the exception handler after its finish event.
C12_FilesOnlyWhenCompleted ==
    \A t \in DOMAIN translation_tasks :
        translation_tasks[t].result_files # EmptyMap
            => translation_tasks[t].status = "completed"

C12_Witness ==
    \E t \in TaskIds :
        /\ pc[t] = "done"
        /\ event[t].type = "finish"
        /\ event[t].translate_result.dual_pdf_path # None
        /\ translation_tasks[t].status = "failed"
        /\ translation_tasks[t].result_files = EmptyMap

\* C13: a request never observes a completed task without its registration:
\* when GET /status reports completed, and when GET /download finds the task
\* completed, task_files has the task's entry with the kinds of result_files,
\* and the run has returned; so a download of kind k that follows a poll
\* reporting completed with k in result_files finds k registered, and is
\* answered 200 unless the file has left the disk.
C13_RegisteredWithCompleted ==
    /\ [][ \A t \in TaskIds :
             /\ ( /\ Served(resp', "status") /\ IsPoll(resp', t)
                  /\ resp'.body.status = "completed" )
                   => /\ pc[t] = "done"
                      /\ t \in DOMAIN task_files
                      /\ DOMAIN task_files[t] = DOMAIN resp'.body.result_files
             /\ ( /\ Served(resp', "download") /\ resp'.task_id = t
                  /\ t \in DOMAIN translation_tasks
                  /\ translation_tasks[t].status = "completed" )
                   => /\ pc[t] = "done"
                      /\ t \in DOMAIN task_files
                      /\ DOMAIN task_files[t] = DOMAIN translation_tasks[t].result_files
             /\ ( /\ IsPoll(resp, t) /\ resp.body.status = "completed"
                  /\ Served(resp', "download") /\ resp'.task_id = t
                  /\ resp'.file_type \in DOMAIN resp.body.result_files )
                   => /\ t \in DOMAIN task_files
                      /\ resp'.file_type \in DOMAIN task_files[t]
                      /\ resp'.code \in {200, 404}
                      /\ resp'.code = 404
                            => task_files[t][resp'.file_type] \notin disk ]_vars
    /\ [](\A t \in DOMAIN translation_tasks :
             (loop = NoTask /\ translation_tasks[t].status = "completed")
                 => t \in DOMAIN task_files)

C13_Witness ==
    \E t \in TaskIds, u \in TaskIds :
        /\ IsPoll(resp, t)
        /\ resp.body.status = "completed"
        /\ "dual" \in DOMAIN resp.body.result_files
        /\ DownloadCode(t, "dual") = 200
        /\ pc[u] = "await"

\* C14: the records are exactly those of the ids allocated by accepted
\* submissions, one per id, each with its key in its task_id field; an accepted
\* POST /translate adds one record, under an id that had none, with status
\* pending, progress 0 and empty result_files, and leaves the others as they
\* are; no step removes a record, changes its task_id or puts a new record in
\* the place of an existing one.
C14_OneRecordPerId ==
    /\ [](/\ DOMAIN translation_tasks = {t \in TaskIds : Allocated(t)}
          /\ \A t \in DOMAIN translation_tasks : translation_tasks[t].task_id = t)
    /\ [][ /\ DOMAIN translation_tasks \subseteq DOMAIN translation_tasks'
           /\ \A t \in DOMAIN translation_tasks :
                 /\ translation_tasks'[t].task_id = translation_tasks[t].task_id
                 /\ translation_tasks[t].status # "pending"
                       => translation_tasks'[t].status # "pending"
           /\ \A t \in DOMAIN translation_tasks' \ DOMAIN translation_tasks :
                 /\ Served(resp', "translate")
                 /\ resp'.code = 200
                 /\ resp'.task_id = t
                 /\ translation_tasks'[t].status = "pending"
                 /\ translation_tasks'[t].progress = 0
                 /\ translation_tasks'[t].result_files = EmptyMap
           /\ Served(resp', "translate")
                 => IF resp'.code = 200
                    THEN /\ resp'.task_id \notin DOMAIN translation_tasks
                         /\ DOMAIN translation_tasks' =
                               DOMAIN translation_tasks \cup {resp'.task_id}
                         /\ \A t \in DOMAIN translation_tasks :
                               translation_tasks'[t] = translation_tasks[t]
                    ELSE translation_tasks' = translation_tasks ]_vars

C14_Witness ==
    /\ DOMAIN translation_tasks = {1, 2}
    /\ translation_tasks[1].task_id = 1
    /\ translation_tasks[2].task_id = 2
    /\ translation_tasks[1].status = "failed"
    /\ translation_tasks[2].status = "pending"
    /\ resp.op = "translate"
    /\ resp.code = 200

\* C15: the run of a task is started at most once.  A run becomes scheduled
\* only in the step in which POST /translate answers 200 with its id, and
\* that step schedules no other run; a run starts only from scheduled; a run
\* that has started is never scheduled or started again, whether it ended
\* completed or failed; GET /status and GET /download move no run.
C15_RunStartedOnce ==
    [][ /\ \A t \in TaskIds :
             /\ (pc'[t] = "scheduled" /\ pc[t] # "scheduled")
                   => /\ pc[t] = "none"
                      /\ Served(resp', "translate")
                      /\ resp'.code = 200
                      /\ resp'.task_id = t
             /\ (pc'[t] = "setup" /\ pc[t] # "setup") => pc[t] = "scheduled"
             /\ pc[t] \notin {"none", "scheduled"}
                   => \/ pc'[t] = pc[t]
                      \/ pc'[t] \notin {"none", "scheduled", "setup"}
        /\ (Served(resp', "translate") /\ resp'.code = 200)
              => \A u \in TaskIds :
                    IF u = resp'.task_id
                    THEN pc[u] = "none" /\ pc'[u] = "scheduled"
                    ELSE pc'[u] = pc[u]
        /\ (Served(resp', "translate") /\ resp'.code = 400) => pc' = pc
        /\ (Served(resp', "status") \/ Served(resp', "download")) => pc' = pc ]_vars

C15_Witness ==
    \E t \in TaskIds :
        /\ pc[t] = "done"
        /\ event[t].type = "none"
        /\ translation_tasks[t].status = "failed"
        /\ resp.op = "download"
        /\ resp.task_id = t
        /\ resp.code = 400

\* C16: a record starts pending; the first step of its run sets processing;
\* completed or failed is entered from processing and never from pending; and
\* the status never becomes pending again after it was something else, nor
\* processing again after it was completed or failed.  (A step from completed
\* to failed is neither of these; it is the matter of C23.)
C16_StatusOrder ==
    [][ \A t \in TaskIds :
          /\ (t \in DOMAIN translation_tasks' /\ t \notin DOMAIN translation_tasks)
                => translation_tasks'[t].status = "pending"
          /\ t \in DOMAIN translation_tasks
                => LET old == translation_tasks[t].status
                       new == translation_tasks'[t].status
                   IN /\ new = "pending" => old = "pending"
                      /\ new = "processing" => old \in {"pending", "processing"}
                      /\ (new \in Terminal /\ old \notin Terminal)
                            => old = "processing"
                      /\ (pc[t] = "scheduled" /\ pc'[t] # "scheduled")
                            => old = "pending" /\ new = "processing" ]_vars

C16_Witness ==
    \E t \in TaskIds :
        /\ pc[t] = "done"
        /\ translation_tasks[t].status = "completed"
        /\ DOMAIN translation_tasks[t].result_files = FileKinds
        /\ IsPoll(resp, t)
        /\ resp.body.status = "processing"

\* C17: a step that answers GET /status, GET /download (with 200, 400 or
\* 404), GET /health or GET / leaves translation_tasks and task_files as they
\* are; a step that answers POST /translate leaves task_files as it is and,
\* when it answers 200, adds the pending record of the new id to
\* translation_tasks and changes nothing else in it; when it answers 400 it
\* leaves translation_tasks as it is.
C17_ReadOnlyEndpoints ==
    [][ /\ ( \/ Served(resp', "status") \/ Served(resp', "download")
             \/ Served(resp', "health") \/ Served(resp', "root") )
              => UNCHANGED << translation_tasks, task_files >>
        /\ Served(resp', "translate")
              => /\ task_files' = task_files
                 /\ IF resp'.code = 200
                    THEN /\ resp'.task_id \notin DOMAIN translation_tasks
                         /\ DOMAIN translation_tasks' =
                               DOMAIN translation_tasks \cup {resp'.task_id}
                         /\ translation_tasks'[resp'.task_id].status = "pending"
                         /\ \A t \in DOMAIN translation_tasks :
                               translation_tasks'[t] = translation_tasks[t]
                    ELSE translation_tasks' = translation_tasks ]_vars

C17_Witness ==
    \E t \in TaskIds, u \in TaskIds :
        /\ resp.op = "download"
        /\ resp.task_id = t
        /\ resp.code = 200
        /\ t \in DOMAIN task_files
        /\ resp.file_type \in DOMAIN task_files[t]
        /\ pc[u] = "scheduled"

\* This step is a step of the run of task t.
RunMoved(t) ==
    /\ pc[t] # "none"
    /\ pc'[t] # pc[t] \/ event'[t] # event[t] \/ exc'[t] # exc[t]

\* C18: a step of the run of task a leaves the record and the task_files
\* entry of every other task as they are, whatever the other runs are doing;
\* and a record that exists changes only in a step of its own run.
C18_SingleWriter ==
    [][ /\ \A a \in TaskIds :
             RunMoved(a)
                => \A b \in TaskIds \ {a} :
                      /\ b \in DOMAIN translation_tasks
                            => translation_tasks'[b] = translation_tasks[b]
                      /\ b \in DOMAIN task_files <=> b \in DOMAIN task_files'
                      /\ b \in DOMAIN task_files
                            => task_files'[b] = task_files[b]
        /\ \A b \in DOMAIN translation_tasks :
             translation_tasks'[b] # translation_tasks[b] => RunMoved(b)
        /\ \A b \in DOMAIN task_files' :
             (b \notin DOMAIN task_files \/ task_files'[b] # task_files[b])
                => RunMoved(b) ]_vars

C18_Witness ==
    /\ pc[1] = "await"
    /\ pc[2] = "done"
    /\ translation_tasks[1].progress = 70
    /\ translation_tasks[1].status = "processing"
    /\ translation_tasks[2].status = "completed"
    /\ 2 \in DOMAIN task_files
    /\ 1 \notin DOMAIN task_files

\* C19: while the run of a task is translating (from the end of its set-up to
\* its return from the stream), the rate limit in force is the task's own qps,
\* the one its TranslationConfig carries (stated as the claim states it; line
\* 93 sets the limiter shared by the process, so the set-up of another task
\* with another qps changes the limit under a run that is translating).
C19_OwnRateLimit ==
    \A t \in TaskIds :
        pc[t] \in {"await", "register"}
            => rate_limiter = Some(config_obj[t].qps)

\* Task t was submitted with lang_in=en, lang_out=zh and no_mono=true.
Scenario(t) ==
    /\ t \in DOMAIN run_args
    /\ run_args[t].request.lang_in = Some("en")
    /\ run_args[t].request.lang_out = Some("zh")
    /\ run_args[t].request.no_mono = Some(TRUE)

\* The engine finished the run of t and honoured the no_mono it was given.
Honoured(t) ==
    /\ event[t].type = "finish"
    /\ config_obj[t].no_mono => event[t].translate_result.mono_pdf_path = None

\* C20: the run of a submission with lang_in=en, lang_out=zh, no_mono=true
\* gives the engine exactly these values; mono is registered only when the
\* finish event's result names a mono path and that path exists when it is
\* tested; so when the engine honours no_mono and the task is completed,
\* result_files has no key but dual and GET /download/{id}/mono is answered
\* 404.  (That the task is completed with dual registered is reached when the
\* engine finishes and its dual file is there: the witness.)
C20_NoMonoScenario ==
    /\ [](\A t \in TaskIds :
             /\ (Scenario(t) /\ t \in DOMAIN config_obj)
                   => /\ config_obj[t].no_mono = TRUE
                      /\ config_obj[t].lang_in = "en"
                      /\ config_obj[t].lang_out = "zh"
             /\ (t \in DOMAIN task_files /\ "mono" \in DOMAIN task_files[t])
                   => /\ event[t].type = "finish"
                      /\ event[t].translate_result.mono_pdf_path # None
                      /\ task_files[t]["mono"] =
                            event[t].translate_result.mono_pdf_path
             /\ ( /\ Scenario(t) /\ pc[t] = "done" /\ Honoured(t)
                  /\ translation_tasks[t].status = "completed" )
                   => /\ DOMAIN translation_tasks[t].result_files \subseteq {"dual"}
                      /\ DownloadCode(t, "mono") = 404)
    /\ [][ \A t \in TaskIds :
             /\ ( /\ t \notin DOMAIN task_files /\ t \in DOMAIN task_files'
                  /\ "mono" \in DOMAIN task_files'[t] )
                   => task_files'[t]["mono"] \in disk
             /\ ( /\ Scenario(t) /\ Honoured(t)
                  /\ translation_tasks[t].status = "completed"
                  /\ Served(resp', "download")
                  /\ resp'.task_id = t /\ resp'.file_type = "mono" )
                   => resp'.code = 404 ]_vars

C20_Witness ==
    \E t \in TaskIds :
        /\ Scenario(t)
        /\ Honoured(t)
        /\ translation_tasks[t].status = "completed"
        /\ DOMAIN translation_tasks[t].result_files = {"dual"}
        /\ resp.op = "download"
        /\ resp.task_id = t
        /\ resp.file_type = "mono"
        /\ resp.code = 404

C22_EffectiveOptions ==
    /\ [](\A t \in DOMAIN config_obj :
             LET r == run_args[t].request
                 c == config_obj[t]
             IN /\ c.lang_in =
                      IF r.lang_in # None /\ r.lang_in # Some("")
                      THEN r.lang_in[1] ELSE config.translation.default_lang_in
                /\ c.lang_out =
                      IF r.lang_out # None /\ r.lang_out # Some("")
                      THEN r.lang_out[1] ELSE config.translation.default_lang_out
                /\ c.qps =
                      IF r.qps # None /\ r.qps # Some(0)
                      THEN r.qps[1] ELSE config.server.qps
                /\ c.translator.lang_in = c.lang_in
                /\ c.translator.lang_out = c.lang_out)
    /\ [][ \A t \in DOMAIN config_obj' \ DOMAIN config_obj :
             rate_limiter' = Some(config_obj'[t].qps) ]_vars

C22_Witness ==
    \E t \in DOMAIN config_obj :
        /\ run_args[t].request.lang_in = Some("")
        /\ run_args[t].request.lang_out = Some("fr")
        /\ run_args[t].request.qps = Some(0)
        /\ config_obj[t].lang_in = "en"
        /\ config_obj[t].lang_out = "fr"
        /\ config_obj[t].qps = config.server.qps
        /\ pc[t] = "await"

\* C23: once a step of a run has assigned status completed, no later step
\* assigns the status another value (stated as the claim states it; the
\* exists() tests come after the assignment, and when one raises the handler
\* assigns failed).
C23_CompletedStays ==
    [][ \A t \in DOMAIN translation_tasks :
          translation_tasks[t].status = "completed"
              => translation_tasks'[t].status = "completed" ]_vars

\* C24: in every state the progress of every task is between 0 and 100
\* (stated as the claim states it; line 151 stores the engine's
\* overall_progress as it comes, whatever its value).
C24_ProgressInRange ==
    \A t \in DOMAIN translation_tasks :
        /\ 0 <= translation_tasks[t].progress
        /\ translation_tasks[t].progress <= 100

\* C25: a completed record has progress 100, and a failed record has progress
\* 100 only when a progress_update of the engine reported 100; no task is
\* failed with the 100 that the finish branch wrote (stated as the claim
\* states it; the handler that marks the task failed after a finish event
\* leaves the progress of line 161).
C25_ProgressOfFinal ==
    \A t \in DOMAIN translation_tasks :
        /\ translation_tasks[t].status = "completed"
              => translation_tasks[t].progress = 100
        /\ (translation_tasks[t].status = "failed"
               /\ translation_tasks[t].progress = 100)
              => /\ event[t].type # "finish"
                 /\ LastReported(event[t]) = 100

\* C26: in every state, a task with an entry in task_files has a record, the
\* record's status is completed, the entry has the kinds of the record's
\* result_files, and the path of each kind is the path whose string
\* result_files holds.
C26_FilesMatchRecord ==
    \A t \in DOMAIN task_files :
        /\ t \in DOMAIN translation_tasks
        /\ translation_tasks[t].status = "completed"
        /\ DOMAIN task_files[t] = DOMAIN translation_tasks[t].result_files
        /\ \A k \in DOMAIN task_files[t] :
              /\ translation_tasks[t].result_files[k] =
                    << "str" >> \o task_files[t][k]
              /\ task_files[t][k] # translation_tasks[t].result_files[k]

C26_Witness ==
    \E t \in DOMAIN task_files :
        /\ DOMAIN task_files[t] = {"mono"}
        /\ DOMAIN event[t].translate_result = {"dual_pdf_path", "mono_pdf_path"}
        /\ event[t].translate_result.dual_pdf_path # None
        /\ translation_tasks[t].result_files["mono"] = Str(task_files[t]["mono"])

\* C27: the record of a task is there from the step that schedules its run
\* and is never removed, so in every state a run that is scheduled, running,
\* in its exception handler or returned has its record, whatever other
\* submissions and runs do in between; no run ends by a KeyError leaving
\* translate_document.
C27_RunFindsRecord ==
    /\ [](\A t \in TaskIds :
             /\ pc[t] # "none" => t \in DOMAIN translation_tasks
             /\ pc[t] # "escaped")
    /\ [][ /\ \A t \in TaskIds :
                 (pc[t] = "none" /\ pc'[t] # "none")
                     => /\ pc'[t] = "scheduled"
                        /\ t \in DOMAIN translation_tasks'
           /\ \A t \in TaskIds :
                 (pc'[t] # pc[t] /\ pc[t] # "none")
                     => /\ t \in DOMAIN translation_tasks
                        /\ t \in DOMAIN translation_tasks'
           /\ DOMAIN translation_tasks \subseteq DOMAIN translation_tasks' ]_vars

C27_Witness ==
    /\ pc[1] = "except"
    /\ pc[2] = "scheduled"
    /\ event[1].type = "finish"
    /\ 1 \in DOMAIN translation_tasks

\* C28: the no_dual (resp. no_mono) of the engine's configuration is the
\* request's value whenever the request gives the flag, true or false, and the
\* configured default only when the request omits it; so a false in the
\* request overrides a configured true.
C28_FlagsByPresence ==
    \A t \in DOMAIN config_obj :
        LET r == run_args[t].request
            c == config_obj[t]
        IN /\ r.no_dual = Some(TRUE) => c.no_dual = TRUE
           /\ r.no_dual = Some(FALSE) => c.no_dual = FALSE
           /\ r.no_dual = None => c.no_dual = config.translation.no_dual
           /\ r.no_mono = Some(TRUE) => c.no_mono = TRUE
           /\ r.no_mono = Some(FALSE) => c.no_mono = FALSE
           /\ r.no_mono = None => c.no_mono = config.translation.no_mono

C28_Witness ==
    \E t \in DOMAIN config_obj :
        /\ config.translation.no_dual = TRUE
        /\ config.translation.no_mono = TRUE
        /\ run_args[t].request.no_dual = Some(FALSE)
        /\ run_args[t].request.no_mono = None
        /\ config_obj[t].no_dual = FALSE
        /\ config_obj[t].no_mono = TRUE

\* C29: the watermark mode of the engine's configuration is one of
\* NoWatermark, Both and Watermarked: with the request's name when it is given
\* and not empty, and the configured name otherwise, no_watermark gives
\* NoWatermark, both gives Both, and every other name gives Watermarked; the
\* set-up that builds it leaves the task processing, whatever the name.
C29_WatermarkMode ==
    \A t \in DOMAIN config_obj :
        LET given == run_args[t].request.watermark_output_mode
            name == IF given # None /\ given # Some("")
                    THEN given[1] ELSE config.translation.watermark_output_mode
            mode == config_obj[t].watermark_output_mode
        IN /\ mode \in {"NoWatermark", "Both", "Watermarked"}
           /\ mode = "NoWatermark" <=> name = "no_watermark"
           /\ mode = "Both" <=> name = "both"
           /\ pc[t] = "await" => translation_tasks[t].status = "processing"

C29_Witness ==
    \E t \in DOMAIN config_obj :
        /\ run_args[t].request.watermark_output_mode = Some("No_Watermark")
        /\ config.translation.watermark_output_mode = "both"
        /\ config_obj[t].watermark_output_mode = "Watermarked"
        /\ pc[t] = "await"
        /\ translation_tasks[t].status = "processing"

\* C30: the polling client is never answered 400 by GET /download.  It sends
\* a download only from its download loop, which it enters on a poll that
\* reported completed, for the task of that poll and for a kind that poll's
\* result_files lists; a poll that reports completed or failed is the last
\* poll of its loop; and when the client gives up on time it sends nothing, so
\* the server and the run are as they were.
C30_ClientNever400 ==
    [][ /\ Served(resp', "download")
              => /\ resp'.code # 400
                 /\ client.pc = "download"
                 /\ client.status.status = "completed"
                 /\ resp'.task_id = client.task_id
                 /\ resp'.task_id = client.status.task_id
                 /\ resp'.file_type \in DOMAIN client.status.result_files
        /\ (Served(resp', "status") /\ resp'.code = 200
               /\ resp'.body.status \in Terminal)
              => client'.pc # "poll"
        /\ (client'.pc = "download" /\ client.pc # "download")
              => /\ Served(resp', "status")
                 /\ resp'.body.status = "completed"
                 /\ client'.status = resp'.body
        /\ (client.pc = "poll" /\ client'.pc = "idle" /\ resp' = resp)
              => UNCHANGED server ]_vars

C30_Witness ==
    /\ client.pc = "download"
    /\ client.ftypes = << >>
    /\ DOMAIN client.status.result_files = {"dual", "mono"}
    /\ resp.op = "download"
    /\ resp.file_type = "mono"
    /\ resp.code = 404
    /\ \E u \in TaskIds : u # client.task_id /\ pc[u] = "await"

====
